---------------------------- MODULE Spec2Model ----------------------------
(***************************************************************************)
(* The two scripts of the repository as one state machine:                 *)
(*   demo/simple_scalar_optimization/demo.py  (create_problem, main)       *)
(*   tests/test_assimilator.py                (main)                       *)
(* A program counter names the source line about to run ("L10" is line 10  *)
(* of demo.py, "T22" is line 22 of test_assimilator.py).  dolfin / pulse   *)
(* objects live in a heap and are named by reference, so that two names    *)
(* for one object (the control and the material's parameter 'a') and a     *)
(* copy of an object (the fibre fields) are different things in the model. *)
(* Real numbers are kept in tenths: 0.1 is 1, 2.8 is 28, 1.0 is 10.        *)
(***************************************************************************)
EXTENDS Integers, Sequences, FiniteSets, TLC

(* ------------------------------ bounds -------------------------------- *)
\* facet marker ids a mesh file may use for its named regions: 1..MaxMarker
MaxMarker == 3
\* values (in tenths) the optimiser may try and return: 1..MaxControl
MaxControl == 3
\* optimiser iterations after the first forward pass
MaxIter == 2
\* topological dimensions a marker table entry may carry: 1..MaxDim
MaxDim == 2

(* --------------------------- python values ---------------------------- *)
\* A python int and a python tuple of ints, told apart by their tag.
PyInt(n) == [tag |-> "int", items |-> <<n>>]
PyTuple(t) == [tag |-> "tuple", items |-> t]
PyNone == [tag |-> "none", items |-> << >>]
\* t[0] of a python tuple
GetItem0(t) == PyInt(t.items[1])

MarkerNames == {"ENDO", "BASE"}

(* ------------------------------- state -------------------------------- *)
VARIABLES
  script,        \* which script runs: "demo" or "test"
  pc,            \* source line about to run
  annotate,      \* pulse.annotation.annotate
  meshfile,      \* content of the packaged mesh file "simple_ellipsoid"
  heap,          \* dolfin / pulse objects, by reference (index)
  geometry,      \* pulse.HeartGeometry: references and the marker table
  activation, matparams, control, f0, s0, n0, material,
  lvp, neumann_bc, robin_bc, dirichlet_bc, bcs, problem,
  endo, volume_model, volume_target, pressure_obs, assimilator,
  iter, lstep, paired,   \* position inside Assimilator.assimilate()
  u, optimal_control, volume, model_volume,
  stdout,        \* printed lines
  log,           \* completed calls, in order
  raisedAt       \* where an exception was raised ("" when none)

builderVars == <<geometry, activation, matparams, control, f0, s0, n0,
                 material, lvp, neumann_bc, robin_bc, dirichlet_bc, bcs>>
driverVars == <<endo, volume_model, volume_target, pressure_obs, assimilator,
                u, optimal_control, volume, model_volume>>
assimVars == <<iter, lstep, paired>>
vars == <<script, pc, annotate, meshfile, heap, builderVars, problem,
          driverVars, assimVars, stdout, log, raisedAt>>

(* ------------------------------- heap --------------------------------- *)
\* dolfin_adjoint.Function / Constant holding one scalar or field value
Function(v) == [type |-> "Function", val |-> v]
\* reference of the object the next allocation creates
NewRef(h) == Len(h) + 1
Alloc(h, obj) == Append(h, obj)
\* dst.assign(src): the value of src is written into the object dst
Assign(h, dst, src) == [h EXCEPT ![dst].val = h[src].val]
\* dst.assign(Constant(v)): the temporary Constant is dropped after the call
AssignConstant(h, dst, v) == [h EXCEPT ![dst].val = v]
\* value read through a reference
Val(r) == heap[r].val

NoGeometry == [mesh |-> 0, ffun |-> 0, f0 |-> 0, s0 |-> 0, n0 |-> 0,
               markers |-> [n \in MarkerNames |-> PyNone]]
NoMaterial == [activation |-> 0, a |-> 0, f0 |-> 0, s0 |-> 0, n0 |-> 0]
NoBCs == [dirichlet |-> << >>, neumann |-> << >>, robin |-> << >>]
NoProblem == [built |-> FALSE, dirichlet |-> << >>, state |-> << >>]
\* geometry.ds(subdomain_id): the surface measure restricted to the facets
\* carrying the given marker
ds(subdomain_id) == [type |-> "ds", subdomain_id |-> subdomain_id]
NoObservation == [mesh |-> 0, dmu |-> ds(PyNone)]
NoTarget == [observations |-> << >>, model |-> NoObservation, collect |-> FALSE]
NoBoundaryObservation == [bc |-> 0, data |-> << >>]
NoAssimilator == [targets |-> << >>, bcs |-> NoBoundaryObservation, control |-> 0]

\* The mesh files a run may find: the two named regions carry distinct ids.
MeshFiles ==
  { [mesh |-> 1, ffun |-> 2, f0 |-> 3, s0 |-> 4, n0 |-> 5,
     markers |-> [n \in MarkerNames |->
                    PyTuple(<<IF n = "ENDO" THEN e ELSE b, d>>)]] :
      e \in 1..MaxMarker, b \in 1..MaxMarker, d \in 1..MaxDim }

Init ==
  /\ script \in {"demo", "test"}
  /\ pc = IF script = "demo" THEN "L77" ELSE "T18"
  /\ annotate = FALSE
  /\ meshfile \in {m \in MeshFiles : m.markers["ENDO"] # m.markers["BASE"]}
  /\ heap = << >>
  /\ geometry = NoGeometry
  /\ activation = 0 /\ matparams = [a |-> 0] /\ control = 0
  /\ f0 = 0 /\ s0 = 0 /\ n0 = 0
  /\ material = NoMaterial
  /\ lvp = 0 /\ neumann_bc = << >> /\ robin_bc = << >> /\ dirichlet_bc = << >>
  /\ bcs = NoBCs
  /\ problem = NoProblem
  /\ endo = PyNone /\ volume_model = NoObservation /\ volume_target = NoTarget
  /\ pressure_obs = NoBoundaryObservation /\ assimilator = NoAssimilator
  /\ iter = 0 /\ lstep = 0 /\ paired = << >>
  /\ u = 0 /\ optimal_control = 0 /\ volume = << >> /\ model_volume = << >>
  /\ stdout = << >>
  /\ log = << >>
  /\ raisedAt = ""


(* ------------------------ program constants --------------------------- *)
\* control.assign(Constant(1.0)): 1.0 in tenths
control_init == 10
\* base_spring = 1.0, in tenths
base_spring == 10
\* pressure_data = [0.1] and volume_data = [2.8] of the demo, in tenths
pressure_data == <<1>>
volume_data == <<28>>
\* Variant: the load series one value short (lvp = [0.5]) while two volumes
\* are given.
test_lvp_short == <<5>>
\* volumes = (2.7, 2.9) and lvp = [0.5, 1.0] of the test script, in tenths
volumes == <<27, 29>>
test_lvp == <<5, 10>>

Logged(name) == \E i \in 1..Len(log) : log[i] = name
Count(name) == Cardinality({i \in 1..Len(log) : log[i] = name})

(* ------------------------- create_problem ----------------------------- *)
\* The test script calls fixtures.create_problem(), which is not among the
\* source files; the builder of demo.py, which the test script duplicates,
\* stands for it.  The builder returns to the script that called it.

\* geometry = pulse.HeartGeometry.from_file(pulse.mesh_paths[...])
LoadGeometry ==
  /\ pc = "L10"
  /\ LET r == Len(heap) IN
       /\ heap' = heap \o << Function(meshfile.mesh), Function(meshfile.ffun),
                             Function(meshfile.f0), Function(meshfile.s0),
                             Function(meshfile.n0) >>
       /\ geometry' = [mesh |-> r + 1, ffun |-> r + 2, f0 |-> r + 3,
                       s0 |-> r + 4, n0 |-> r + 5,
                       markers |-> meshfile.markers]
  /\ log' = Append(log, "from_file")
  /\ pc' = "L12"
  /\ UNCHANGED <<script, annotate, meshfile, activation, matparams, control,
                 f0, s0, n0, material, lvp, neumann_bc, robin_bc,
                 dirichlet_bc, bcs, problem, driverVars, assimVars, stdout,
                 raisedAt>>

\* activation = Function(R0 space); activation.assign(Constant(0.0))
MakeActivation ==
  /\ pc = "L12"
  /\ activation' = NewRef(heap)
  /\ heap' = AssignConstant(Alloc(heap, Function(0)), NewRef(heap), 0)
  /\ pc' = "L16"
  /\ UNCHANGED <<script, annotate, meshfile, geometry, matparams, control,
                 f0, s0, n0, material, lvp, neumann_bc, robin_bc,
                 dirichlet_bc, bcs, problem, driverVars, assimVars, stdout,
                 log, raisedAt>>

\* Variant: the parameter set receives a separate object holding 1.0 and the
\* function returns another one as the control.
MakeControl_copy ==
  /\ pc = "L16"
  /\ control' = NewRef(heap)
  /\ heap' = Alloc(AssignConstant(Alloc(heap, Function(0)), NewRef(heap),
                                  control_init),
                   Function(control_init))
  /\ matparams' = [matparams EXCEPT !.a = control' + 1]
  /\ pc' = "L24"
  /\ UNCHANGED <<script, annotate, meshfile, geometry, activation,
                 f0, s0, n0, material, lvp, neumann_bc, robin_bc,
                 dirichlet_bc, bcs, problem, driverVars, assimVars, stdout,
                 log, raisedAt>>

\* matparams = default_parameters(); control = Function(V);
\* control.assign(Constant(1.0)); matparams["a"] = control
MakeControl ==
  /\ pc = "L16"
  /\ control' = NewRef(heap)
  /\ heap' = AssignConstant(Alloc(heap, Function(0)), NewRef(heap), control_init)
  /\ matparams' = [matparams EXCEPT !.a = control']
  /\ pc' = "L24"
  /\ UNCHANGED <<script, annotate, meshfile, geometry, activation,
                 f0, s0, n0, material, lvp, neumann_bc, robin_bc,
                 dirichlet_bc, bcs, problem, driverVars, assimVars, stdout,
                 log, raisedAt>>

\* Variant: the assignments run the other way (geometry.f0.assign(f0)), so
\* the new, zero fields overwrite the geometry's.
CopyFibres_reversed ==
  /\ pc = "L24"
  /\ LET r  == Len(heap)
         h0 == heap \o << Function(0), Function(0), Function(0) >>
         h1 == Assign(h0, geometry.f0, r + 1)
         h2 == Assign(h1, geometry.s0, r + 2)
         h3 == Assign(h2, geometry.n0, r + 3)
     IN /\ heap' = h3
        /\ f0' = r + 1 /\ s0' = r + 2 /\ n0' = r + 3
  /\ pc' = "L31"
  /\ UNCHANGED <<script, annotate, meshfile, geometry, activation, matparams,
                 control, material, lvp, neumann_bc, robin_bc,
                 dirichlet_bc, bcs, problem, driverVars, assimVars, stdout,
                 log, raisedAt>>

\* f0 = Function(geometry.f0.function_space()); f0.assign(geometry.f0)
\* and the same for s0 and n0: three new objects with the geometry's values
CopyFibres ==
  /\ pc = "L24"
  /\ LET r  == Len(heap)
         h0 == heap \o << Function(0), Function(0), Function(0) >>
         h1 == Assign(h0, r + 1, geometry.f0)
         h2 == Assign(h1, r + 2, geometry.s0)
         h3 == Assign(h2, r + 3, geometry.n0)
     IN /\ heap' = h3
        /\ f0' = r + 1 /\ s0' = r + 2 /\ n0' = r + 3
  /\ pc' = "L31"
  /\ UNCHANGED <<script, annotate, meshfile, geometry, activation, matparams,
                 control, material, lvp, neumann_bc, robin_bc,
                 dirichlet_bc, bcs, problem, driverVars, assimVars, stdout,
                 log, raisedAt>>

\* material = pulse.HolzapfelOgden(activation=activation,
\*                parameters=matparams, f0=f0, s0=s0, n0=n0)
MakeMaterial ==
  /\ pc = "L31"
  /\ material' = [activation |-> activation, a |-> matparams.a,
                  f0 |-> f0, s0 |-> s0, n0 |-> n0]
  /\ pc' = "L36"
  /\ UNCHANGED <<script, annotate, meshfile, heap, geometry, activation,
                 matparams, control, f0, s0, n0, lvp, neumann_bc, robin_bc,
                 dirichlet_bc, bcs, problem, driverVars, assimVars, stdout,
                 log, raisedAt>>

NeumannBC(traction, marker, name) ==
  [type |-> "NeumannBC", traction |-> traction, marker |-> marker,
   name |-> name]
RobinBC(value, marker) ==
  [type |-> "RobinBC", value |-> value, marker |-> marker]
DirichletBC(value, ffun, marker) ==
  [type |-> "DirichletBC", value |-> value, ffun |-> ffun, marker |-> marker]

\* Variant: the pressure load is tagged with the BASE marker.
MakeNeumann_base ==
  /\ pc = "L36"
  /\ LET lv_marker == GetItem0(geometry.markers["BASE"])
         h1 == Alloc(heap, Function(0))
         h2 == Alloc(h1, NeumannBC(NewRef(heap), lv_marker, "lv"))
     IN /\ lvp' = NewRef(heap)
        /\ heap' = h2
        /\ neumann_bc' = << NewRef(h1) >>
  /\ pc' = "L42"
  /\ UNCHANGED <<script, annotate, meshfile, geometry, activation, matparams,
                 control, f0, s0, n0, material, robin_bc,
                 dirichlet_bc, bcs, problem, driverVars, assimVars, stdout,
                 log, raisedAt>>

\* lvp = Constant(0.0); lv_marker = geometry.markers["ENDO"][0];
\* lv_pressure = NeumannBC(traction=lvp, marker=lv_marker, name="lv");
\* neumann_bc = [lv_pressure]
MakeNeumann ==
  /\ pc = "L36"
  /\ LET lv_marker == GetItem0(geometry.markers["ENDO"])
         h1 == Alloc(heap, Function(0))
         h2 == Alloc(h1, NeumannBC(NewRef(heap), lv_marker, "lv"))
     IN /\ lvp' = NewRef(heap)
        /\ heap' = h2
        /\ neumann_bc' = << NewRef(h1) >>
  /\ pc' = "L42"
  /\ UNCHANGED <<script, annotate, meshfile, geometry, activation, matparams,
                 control, f0, s0, n0, material, robin_bc,
                 dirichlet_bc, bcs, problem, driverVars, assimVars, stdout,
                 log, raisedAt>>

\* robin_bc = [RobinBC(value=Constant(base_spring),
\*                     marker=geometry.markers["BASE"][0])]
MakeRobin ==
  /\ pc = "L42"
  /\ LET h1 == Alloc(heap, Function(base_spring))
         h2 == Alloc(h1, RobinBC(NewRef(heap),
                                 GetItem0(geometry.markers["BASE"])))
     IN /\ heap' = h2
        /\ robin_bc' = << NewRef(h1) >>
  /\ pc' = "L52"
  /\ UNCHANGED <<script, annotate, meshfile, geometry, activation, matparams,
                 control, f0, s0, n0, material, lvp, neumann_bc,
                 dirichlet_bc, bcs, problem, driverVars, assimVars, stdout,
                 log, raisedAt>>

\* def fix_basal_plane(W): ... ; dirichlet_bc = [fix_basal_plane]
\* The list holds the closure; the DirichletBC exists once it is called.
MakeDirichlet ==
  /\ pc = "L52"
  /\ heap' = Alloc(heap, [type |-> "closure", name |-> "fix_basal_plane"])
  /\ dirichlet_bc' = << NewRef(heap) >>
  /\ pc' = "L65"
  /\ UNCHANGED <<script, annotate, meshfile, geometry, activation, matparams,
                 control, f0, s0, n0, material, lvp, neumann_bc, robin_bc,
                 bcs, problem, driverVars, assimVars, stdout, log, raisedAt>>

\* bcs = pulse.BoundaryConditions(dirichlet=dirichlet_bc,
\*                                neumann=neumann_bc, robin=robin_bc)
CollectBCs ==
  /\ pc = "L65"
  /\ bcs' = [dirichlet |-> dirichlet_bc, neumann |-> neumann_bc,
             robin |-> robin_bc]
  /\ pc' = "L70"
  /\ UNCHANGED <<script, annotate, meshfile, heap, geometry, activation,
                 matparams, control, f0, s0, n0, material, lvp, neumann_bc,
                 robin_bc, dirichlet_bc, problem, driverVars, assimVars,
                 stdout, log, raisedAt>>

\* The body of fix_basal_plane(W): the heap after the call and the new
\* DirichletBC's reference.
fix_basal_plane(h) ==
  LET h1 == Alloc(h, Function(0))
  IN [heap |-> Alloc(h1, DirichletBC(NewRef(h), geometry.ffun,
                                     GetItem0(geometry.markers["BASE"]))),
      bc |-> NewRef(h1)]

\* problem = pulse.MechanicsProblem(geometry, material, bcs): the problem
\* calls each Dirichlet closure on its function space and keeps the result.
MakeProblem ==
  /\ pc = "L70"
  /\ LET r == fix_basal_plane(heap)
     IN /\ heap' = r.heap
        /\ problem' = [built |-> TRUE, dirichlet |-> << r.bc >>,
                       state |-> << >>]
  /\ pc' = "L72"
  /\ UNCHANGED <<script, annotate, meshfile, builderVars, driverVars,
                 assimVars, stdout, log, raisedAt>>

\* return problem, control
ReturnProblem ==
  /\ pc = "L72"
  /\ log' = Append(log, "create_problem")
  /\ pc' = IF script = "demo" THEN "L85" ELSE "T19"
  /\ UNCHANGED <<script, annotate, meshfile, heap, builderVars, problem,
                 driverVars, assimVars, stdout, raisedAt>>

(* --------------------- pulse / pulse_adjoint calls -------------------- *)
\* problem.solve(): the state is the equilibrium under the traction and the
\* material parameter in force when solve() runs
Solve(h) == << h[lvp].val, h[material.a].val >>

\* VolumeObservation(mesh, dmu)
VolumeObservation(mesh, dmu) == [mesh |-> mesh, dmu |-> dmu]
\* OptimizationTarget(observations, model, collect=...)
OptimizationTarget(observations, model, collect) ==
  [observations |-> observations, model |-> model, collect |-> collect]
\* BoundaryObservation(bc, data)
BoundaryObservation(bc, data) == [bc |-> bc, data |-> data]
\* Assimilator(problem, targets, bcs, control): targets is kept as a list
Assimilator(targets, obs, ctrl) ==
  [targets |-> targets, bcs |-> obs, control |-> ctrl]

(* ---------------------------- demo.py main ---------------------------- *)
\* pulse.annotation.annotate = True; problem, control = create_problem()
DemoStart ==
  /\ pc = "L77"
  /\ annotate' = TRUE
  /\ pc' = "L10"
  /\ UNCHANGED <<script, meshfile, heap, builderVars, problem, driverVars,
                 assimVars, stdout, log, raisedAt>>

\* endo = problem.geometry.markers["ENDO"][0];
\* volume_model = VolumeObservation(mesh, problem.geometry.ds(endo));
\* volume_target = OptimizationTarget(volume_data, volume_model)
DemoVolumeTarget ==
  /\ pc = "L85"
  /\ endo' = GetItem0(geometry.markers["ENDO"])
  /\ volume_model' = VolumeObservation(geometry.mesh, ds(endo'))
  /\ volume_target' = OptimizationTarget(volume_data, volume_model', FALSE)
  /\ log' = log \o << "VolumeObservation", "OptimizationTarget" >>
  /\ pc' = "L91"
  /\ UNCHANGED <<script, annotate, meshfile, heap, builderVars, problem,
                 pressure_obs, assimilator, u, optimal_control, volume,
                 model_volume, assimVars, stdout, raisedAt>>

\* pressure_obs = BoundaryObservation(problem.bcs.neumann[0], pressure_data)
DemoBoundaryObservation ==
  /\ pc = "L91"
  /\ pressure_obs' = BoundaryObservation(bcs.neumann[1], pressure_data)
  /\ log' = Append(log, "BoundaryObservation")
  /\ pc' = "L95"
  /\ UNCHANGED <<script, annotate, meshfile, heap, builderVars, problem,
                 endo, volume_model, volume_target, assimilator, u,
                 optimal_control, volume, model_volume, assimVars, stdout,
                 raisedAt>>

\* assimilator = Assimilator(problem, targets=[volume_target],
\*                           bcs=pressure_obs, control=control)
DemoAssimilator ==
  /\ pc = "L95"
  /\ assimilator' = Assimilator(<< volume_target >>, pressure_obs, control)
  /\ log' = Append(log, "Assimilator")
  /\ pc' = "L99"
  /\ UNCHANGED <<script, annotate, meshfile, heap, builderVars, problem,
                 endo, volume_model, volume_target, pressure_obs, u,
                 optimal_control, volume, model_volume, assimVars, stdout,
                 raisedAt>>

(* ----------------------- Assimilator.assimilate ----------------------- *)
\* optimal_control = assimilator.assimilate()   (demo.py line 99)
\* assimilator.assimilate()                     (test_assimilator.py line 37)
AssimilateCall ==
  /\ pc \in {"L99", "T37"}
  /\ iter' = 0 /\ lstep' = 0 /\ paired' = << >>
  /\ log' = Append(log, "assimilate.call")
  /\ pc' = "assimilate"
  /\ UNCHANGED <<script, annotate, meshfile, heap, builderVars, problem,
                 driverVars, stdout, raisedAt>>

\* One step of a forward pass: the next measured load is assigned to the
\* observed boundary condition, the problem is solved, and the solved state
\* is matched against the target measurement of the same step.
ForwardStep ==
  /\ pc = "assimilate"
  /\ lstep < Len(assimilator.bcs.data)
  /\ LET i  == lstep + 1
         bc == heap[assimilator.bcs.bc]
         t  == assimilator.targets[1]
     IN /\ heap' = AssignConstant(heap, bc.traction, assimilator.bcs.data[i])
        /\ problem' = [problem EXCEPT !.state = Solve(heap')]
        /\ paired' = Append(paired,
                       [step |-> i,
                        load |-> assimilator.bcs.data[i],
                        measurement |-> IF i <= Len(t.observations)
                                        THEN t.observations[i] ELSE 0,
                        state |-> problem'.state])
        /\ lstep' = i
  /\ UNCHANGED <<script, pc, annotate, meshfile, builderVars, driverVars,
                 iter, stdout, log, raisedAt>>

\* The optimiser moves the control to a new trial value and runs the forward
\* pass again.
NextIteration ==
  /\ pc = "assimilate"
  /\ lstep = Len(assimilator.bcs.data)
  /\ iter < MaxIter
  /\ \E v \in 1..MaxControl :
       heap' = AssignConstant(heap, assimilator.control, v)
  /\ iter' = iter + 1
  /\ lstep' = 0
  /\ paired' = << >>
  /\ UNCHANGED <<script, pc, annotate, meshfile, builderVars, problem,
                 driverVars, stdout, log, raisedAt>>

\* assimilate() returns the object exposing the optimal control value; the
\* control itself is left at the optimiser's last trial value.
AssimilateReturn ==
  /\ pc = "assimilate"
  /\ lstep = Len(assimilator.bcs.data)
  /\ \E v \in 1..MaxControl : optimal_control' = v
  /\ log' = Append(log, "assimilate.return")
  /\ pc' = IF script = "demo" THEN "L101" ELSE "T39"
  /\ UNCHANGED <<script, annotate, meshfile, heap, builderVars, problem,
                 endo, volume_model, volume_target, pressure_obs, assimilator,
                 u, volume, model_volume, assimVars, stdout, raisedAt>>

(* ------------------------ demo.py main, report ------------------------ *)
\* Variant: the optimal value is assigned to the material's activation.
AssignOptimal_activation ==
  /\ pc = "L101"
  /\ heap' = AssignConstant(heap, material.activation, optimal_control)
  /\ log' = Append(log, "assign")
  /\ pc' = "L102"
  /\ UNCHANGED <<script, annotate, meshfile, builderVars, problem, driverVars,
                 assimVars, stdout, raisedAt>>

\* problem.material.a.assign(dolfin.Constant(optimal_control.optimal_control))
AssignOptimal ==
  /\ pc = "L101"
  /\ heap' = AssignConstant(heap, material.a, optimal_control)
  /\ log' = Append(log, "assign")
  /\ pc' = "L102"
  /\ UNCHANGED <<script, annotate, meshfile, builderVars, problem, driverVars,
                 assimVars, stdout, raisedAt>>

\* Variant: the reporting solve is called twice.
ReportSolve_repeated ==
  /\ pc = "L102"
  /\ problem' = [problem EXCEPT !.state = Solve(heap)]
  /\ log' = Append(log, "solve")
  /\ pc' = IF Logged("solve") THEN "L103" ELSE "L102"
  /\ UNCHANGED <<script, annotate, meshfile, heap, builderVars, driverVars,
                 assimVars, stdout, raisedAt>>

\* problem.solve()
ReportSolve ==
  /\ pc = "L102"
  /\ problem' = [problem EXCEPT !.state = Solve(heap)]
  /\ log' = Append(log, "solve")
  /\ pc' = "L103"
  /\ UNCHANGED <<script, annotate, meshfile, heap, builderVars, driverVars,
                 assimVars, stdout, raisedAt>>

\* u, p = dolfin.split(problem.state);
\* volume = problem.geometry.cavity_volume(u=u)
\* The volume is kept as the state it is the cavity volume of.
ComputeVolume ==
  /\ pc = "L103"
  /\ volume' = problem.state
  /\ pc' = "L106"
  /\ UNCHANGED <<script, annotate, meshfile, heap, builderVars, problem,
                 endo, volume_model, volume_target, pressure_obs, assimilator,
                 u, optimal_control, model_volume, assimVars, stdout, log,
                 raisedAt>>

Line(text, arg) == [text |-> text, arg |-> arg]

\* print(f"Target volume: {volume_data[0]}")
PrintTarget ==
  /\ pc = "L106"
  /\ stdout' = Append(stdout, Line("Target volume: ", << volume_data[1] >>))
  /\ log' = Append(log, "print")
  /\ pc' = "L107"
  /\ UNCHANGED <<script, annotate, meshfile, heap, builderVars, problem,
                 driverVars, assimVars, raisedAt>>

\* Variant: the model volume line is not printed.
PrintModel_missing ==
  /\ pc = "L107"
  /\ pc' = "L108"
  /\ UNCHANGED <<script, annotate, meshfile, heap, builderVars, problem,
                 driverVars, assimVars, stdout, log, raisedAt>>

\* print(f"Model volume: {volume}")
PrintModel ==
  /\ pc = "L107"
  /\ stdout' = Append(stdout, Line("Model volume: ", volume))
  /\ log' = Append(log, "print")
  /\ pc' = "L108"
  /\ UNCHANGED <<script, annotate, meshfile, heap, builderVars, problem,
                 driverVars, assimVars, raisedAt>>

\* print(f"Estimated material parameters {optimal_control.optimal_control}")
PrintEstimate ==
  /\ pc = "L108"
  /\ stdout' = Append(stdout, Line("Estimated material parameters ",
                                   << optimal_control >>))
  /\ log' = Append(log, "print")
  /\ pc' = "done"
  /\ UNCHANGED <<script, annotate, meshfile, heap, builderVars, problem,
                 driverVars, assimVars, raisedAt>>

(* ----------------------- test_assimilator.py main --------------------- *)
\* problem, control = fixtures.create_problem()
TestStart ==
  /\ pc = "T18"
  /\ pc' = "L10"
  /\ UNCHANGED <<script, annotate, meshfile, heap, builderVars, problem,
                 driverVars, assimVars, stdout, log, raisedAt>>

\* geo = problem.geometry; V_cg2 = VectorFunctionSpace(geo.mesh, "CG", 2);
\* u = dolfin.Function(V_cg2): a new, zero displacement field
TestDisplacement ==
  /\ pc = "T19"
  /\ u' = NewRef(heap)
  /\ heap' = Alloc(heap, Function(0))
  /\ pc' = "T22"
  /\ UNCHANGED <<script, annotate, meshfile, builderVars, problem, endo,
                 volume_model, volume_target, pressure_obs, assimilator,
                 optimal_control, volume, model_volume, assimVars, stdout,
                 log, raisedAt>>

\* volume_obs = VolumeObservation(mesh=geo.mesh,
\*                 dmu=geo.ds(geo.markers["ENDO"]), description=...)
TestVolumeObservation ==
  /\ pc = "T22"
  /\ volume_model' = VolumeObservation(geometry.mesh,
                                       ds(geometry.markers["ENDO"]))
  /\ log' = Append(log, "VolumeObservation")
  /\ pc' = "T26"
  /\ UNCHANGED <<script, annotate, meshfile, heap, builderVars, problem, endo,
                 volume_target, pressure_obs, assimilator, u, optimal_control,
                 volume, model_volume, assimVars, stdout, raisedAt>>

\* model_volume = volume_obs(u).vector().get_local()[0]
\* The volume is kept as what it was integrated from: the displacement and
\* the facet ids of the measure.
TestEvaluate ==
  /\ pc = "T26"
  /\ model_volume' = << Val(u) >> \o volume_model.dmu.subdomain_id.items
  /\ pc' = "T27"
  /\ UNCHANGED <<script, annotate, meshfile, heap, builderVars, problem, endo,
                 volume_model, volume_target, pressure_obs, assimilator, u,
                 optimal_control, volume, assimVars, stdout, log, raisedAt>>

\* print(model_volume)
TestPrint ==
  /\ pc = "T27"
  /\ stdout' = Append(stdout, Line("", model_volume))
  /\ log' = Append(log, "print")
  /\ pc' = "T28"
  /\ UNCHANGED <<script, annotate, meshfile, heap, builderVars, problem,
                 driverVars, assimVars, raisedAt>>

\* volumes = (2.7, 2.9);
\* target = OptimizationTarget(volumes, volume_obs, collect=True)
TestTarget ==
  /\ pc = "T28"
  /\ volume_target' = OptimizationTarget(volumes, volume_model, TRUE)
  /\ log' = Append(log, "OptimizationTarget")
  /\ pc' = "T32"
  /\ UNCHANGED <<script, annotate, meshfile, heap, builderVars, problem, endo,
                 volume_model, pressure_obs, assimilator, u, optimal_control,
                 volume, model_volume, assimVars, stdout, raisedAt>>

\* lvp = [0.5, 1.0];
\* bcs = BoundaryObservation(bc=problem.bcs.neumann[0], data=lvp)
TestBoundaryObservation ==
  /\ pc = "T32"
  /\ pressure_obs' = BoundaryObservation(bcs.neumann[1], test_lvp)
  /\ log' = Append(log, "BoundaryObservation")
  /\ pc' = "T36"
  /\ UNCHANGED <<script, annotate, meshfile, heap, builderVars, problem, endo,
                 volume_model, volume_target, assimilator, u, optimal_control,
                 volume, model_volume, assimVars, stdout, raisedAt>>

\* assimilator = Assimilator(problem, target, bcs, control)
TestAssimilator ==
  /\ pc = "T36"
  /\ assimilator' = Assimilator(<< volume_target >>, pressure_obs, control)
  /\ log' = Append(log, "Assimilator")
  /\ pc' = "T37"
  /\ UNCHANGED <<script, annotate, meshfile, heap, builderVars, problem, endo,
                 volume_model, volume_target, pressure_obs, u,
                 optimal_control, volume, model_volume, assimVars, stdout,
                 raisedAt>>

\* from IPython import embed; embed(); exit()
TestExit ==
  /\ pc = "T39"
  /\ log' = Append(log, "exit")
  /\ pc' = "exited"
  /\ UNCHANGED <<script, annotate, meshfile, heap, builderVars, problem,
                 driverVars, assimVars, stdout, raisedAt>>

(* ----------------------------- exceptions ----------------------------- *)
\* The calls into the external stack that may raise: the geometry load, the
\* surface measure given a marker table entry, the problem construction,
\* assimilate() and the reporting solve.
RaisingSteps == {"L10", "L70", "T22", "assimilate", "L102"}

\* Variant: the exception is caught and the script goes on at the same line.
Raise_swallowed ==
  /\ pc \in RaisingSteps
  /\ raisedAt = ""
  /\ raisedAt' = pc
  /\ UNCHANGED <<script, pc, annotate, meshfile, heap, builderVars, problem,
                 driverVars, assimVars, stdout, log>>

\* Neither script has a try statement: an exception raised by a call ends
\* the script at that call.
Raise ==
  /\ pc \in RaisingSteps
  /\ raisedAt' = pc
  /\ pc' = "raised"
  /\ UNCHANGED <<script, annotate, meshfile, heap, builderVars, problem,
                 driverVars, assimVars, stdout, log>>

Next ==
  \/ DemoStart \/ TestStart
  \/ LoadGeometry \/ MakeActivation \/ MakeControl \/ CopyFibres
  \/ MakeMaterial \/ MakeNeumann \/ MakeRobin \/ MakeDirichlet
  \/ CollectBCs \/ MakeProblem \/ ReturnProblem
  \/ DemoVolumeTarget \/ DemoBoundaryObservation \/ DemoAssimilator
  \/ AssimilateCall \/ ForwardStep \/ NextIteration \/ AssimilateReturn
  \/ AssignOptimal \/ ReportSolve \/ ComputeVolume
  \/ PrintTarget \/ PrintModel \/ PrintEstimate
  \/ TestDisplacement \/ TestVolumeObservation \/ TestEvaluate \/ TestPrint
  \/ TestTarget \/ TestBoundaryObservation \/ TestAssimilator \/ TestExit
  \/ Raise

Spec == Init /\ [][Next]_vars

(* ============================== claims =============================== *)
IsPrefix(a, b) == Len(a) <= Len(b) /\ \A i \in 1..Len(a) : a[i] = b[i]

\* the completed calls of a whole run of demo.py, in program order
DemoOrder ==
  << "from_file", "create_problem", "VolumeObservation", "OptimizationTarget",
     "BoundaryObservation", "Assimilator", "assimilate.call",
     "assimilate.return", "assign", "solve", "print", "print", "print" >>

\* the demo is past line 101
AfterAssign == pc \in {"L102", "L103", "L106", "L107", "L108", "done"}
AfterSolve == pc \in {"L103", "L106", "L107", "L108", "done"}

\* the marker ids of the geometry's marker table
TableIds == { GetItem0(geometry.markers[n]) : n \in MarkerNames }

\* C1: a run of the demo driver performs its steps once each and in the
\* fixed order create_problem, volume target, boundary observation,
\* Assimilator, assimilate, assignment, solve, report: at every moment the
\* completed calls are a prefix of that order, a finished run has completed
\* all of them, assimilate() is called only when the target and the boundary
\* observation exist, and the driver's solve only after assimilate() returned.
C1_DemoOrder ==
  script = "demo" =>
    /\ IsPrefix(log, DemoOrder)
    /\ (pc = "done" => log = DemoOrder)
    /\ Count("assimilate.call") <= 1
    /\ (Logged("assimilate.call") =>
          /\ volume_target # NoTarget
          /\ pressure_obs # NoBoundaryObservation
          /\ assimilator.targets = << volume_target >>
          /\ assimilator.bcs = pressure_obs)
    /\ (Logged("solve") => Logged("assimilate.return"))
C1_Witness == script = "demo" /\ pc = "done" /\ Count("assimilate.call") = 1

\* C2: once the demo has assigned the result of assimilate(), the material
\* parameter 'a' holds exactly the returned optimal control value; it still
\* does when the reporting solve runs (the solved state is computed with
\* it, also when that solve raises) and when the estimate is printed.
C2_OptimalAssigned ==
  script = "demo" =>
    /\ (AfterAssign => Val(material.a) = optimal_control)
    /\ (raisedAt = "L102" => Val(material.a) = optimal_control)
    /\ (AfterSolve => problem.state[2] = optimal_control)
    /\ (pc = "done" =>
          /\ stdout[3].arg = << optimal_control >>
          /\ stdout[2].arg[2] = optimal_control)
C2_Witness ==
  /\ script = "demo" /\ pc = "done"
  /\ Val(material.a) = optimal_control /\ optimal_control # control_init

\* C3: the problem returned by create_problem() has one Dirichlet condition
\* (BASE marker), one Neumann pressure load (ENDO marker, traction 0.0 until
\* assimilate() drives it) and one Robin spring (BASE marker, stiffness
\* 1.0); every marker is an id of the geometry's marker table and no
\* boundary condition is in two categories.
C3_BoundaryConditions ==
  Logged("create_problem") =>
    /\ Len(bcs.dirichlet) = 1 /\ Len(bcs.neumann) = 1 /\ Len(bcs.robin) = 1
    /\ heap[bcs.dirichlet[1]].type = "closure"
    /\ Len(problem.dirichlet) = 1
    /\ heap[problem.dirichlet[1]].type = "DirichletBC"
    /\ heap[problem.dirichlet[1]].marker = GetItem0(geometry.markers["BASE"])
    /\ Val(heap[problem.dirichlet[1]].value) = 0
    /\ heap[bcs.neumann[1]].type = "NeumannBC"
    /\ heap[bcs.neumann[1]].marker = GetItem0(geometry.markers["ENDO"])
    /\ (~Logged("assimilate.call") => Val(heap[bcs.neumann[1]].traction) = 0)
    /\ heap[bcs.robin[1]].type = "RobinBC"
    /\ heap[bcs.robin[1]].marker = GetItem0(geometry.markers["BASE"])
    /\ Val(heap[bcs.robin[1]].value) = base_spring
    /\ \A r \in {problem.dirichlet[1], bcs.neumann[1], bcs.robin[1]} :
         heap[r].marker \in TableIds
    /\ Cardinality({bcs.dirichlet[1], problem.dirichlet[1], bcs.neumann[1],
                    bcs.robin[1]}) = 4
C3_Witness ==
  /\ pc \in {"L85", "T19"} /\ Logged("create_problem")
  /\ Len(bcs.dirichlet) = 1 /\ Len(bcs.neumann) = 1 /\ Len(bcs.robin) = 1

\* C4: the control handle and the material's parameter 'a' are one object,
\* holding 1.0 when create_problem() returns: in every state the value read
\* through the control equals the value of material.a, and once the driver
\* has assigned the optimised value the control reads that value.
C4_ControlIsParameter ==
  /\ (control # 0 => matparams.a = control)
  /\ (material # NoMaterial =>
        /\ material.a = control
        /\ Val(control) = Val(material.a))
  /\ (pc \in {"L85", "T19"} => Val(material.a) = control_init)
  /\ (script = "demo" /\ AfterAssign => Val(control) = optimal_control)
C4_Witness ==
  /\ script = "demo" /\ pc = "L102" /\ material.a = control
  /\ Val(control) = optimal_control /\ Val(control) # control_init

\* the calls that complete at or after the step that raised
NotReached(step) ==
  CASE step = "L10" -> {"from_file", "create_problem", "VolumeObservation",
                        "OptimizationTarget", "BoundaryObservation",
                        "Assimilator", "assimilate.call", "assimilate.return",
                        "assign", "solve", "print", "exit"}
    [] step = "L70" -> {"create_problem", "VolumeObservation",
                        "OptimizationTarget", "BoundaryObservation",
                        "Assimilator", "assimilate.call", "assimilate.return",
                        "assign", "solve", "print", "exit"}
    [] step = "T22" -> {"VolumeObservation", "OptimizationTarget",
                        "BoundaryObservation", "Assimilator",
                        "assimilate.call", "assimilate.return", "print",
                        "exit"}
    [] step = "assimilate" -> {"assimilate.return", "assign", "solve", "exit"}
    [] step = "L102" -> {"solve", "print"}
    [] OTHER -> {}

\* C5: when an external step raises (geometry load, problem construction,
\* assimilate(), the reporting solve), the script is over: it stays at the
\* raise, the failed step and every later step are never completed, and no
\* report line that follows the failed step is printed.
C5_FailureTerminates ==
  raisedAt # "" =>
    /\ pc = "raised"
    /\ raisedAt \in RaisingSteps
    /\ \A n \in NotReached(raisedAt) : ~Logged(n)
    /\ (script = "demo" => stdout = << >>)
    /\ (script = "test" =>
          Len(stdout) = IF raisedAt = "assimilate" THEN 1 ELSE 0)
    /\ (raisedAt # "L102" => optimal_control = 0)
C5_Witness ==
  /\ pc = "raised" /\ raisedAt = "L102" /\ Logged("assign")
  /\ stdout = << >>

\* the three report lines, in order
ReportTexts ==
  << "Target volume: ", "Model volume: ", "Estimated material parameters " >>
Texts(out) == [i \in 1..Len(out) |-> out[i].text]

\* C6 as stated: a successful run of either script prints exactly the three
\* report lines in order, and nothing is printed before assimilate() and
\* the reporting solve have completed.
C6_Original ==
  /\ (pc \in {"done", "exited"} => Texts(stdout) = ReportTexts)
  /\ (stdout # << >> => Logged("assimilate.return") /\ Logged("solve"))

\* C6 amended: a successful run of the demo driver prints exactly the three
\* report lines in order and nothing before assimilate() and the reporting
\* solve have completed; the test script prints one line, the model volume
\* of the zero displacement, and prints it before assimilate() is called.
C6_DemoOutput ==
  /\ (script = "demo" =>
        /\ (pc = "done" => Texts(stdout) = ReportTexts)
        /\ IsPrefix(Texts(stdout), ReportTexts)
        /\ (stdout # << >> => Logged("assimilate.return") /\ Logged("solve")))
  /\ (script = "test" =>
        /\ Len(stdout) <= 1
        /\ (Logged("assimilate.call") => Len(stdout) = 1)
        /\ (stdout # << >> => stdout[1].arg = model_volume))
C6_Witness ==
  /\ script = "demo" /\ pc = "done" /\ Len(stdout) = 3
  /\ stdout[1].arg = << volume_data[1] >>

GeometryRefs ==
  {geometry.mesh, geometry.ffun, geometry.f0, geometry.s0, geometry.n0}

\* C9: the geometry is loaded once and stays what was loaded: its mesh,
\* facet function, marker table and fibre, sheet and normal fields keep the
\* mesh file's content through every step of either script, and the
\* material holds its own copies of the three fields.
C9_GeometryImmutable ==
  /\ Count("from_file") <= 1
  /\ (geometry # NoGeometry =>
        /\ Logged("from_file")
        /\ geometry.markers = meshfile.markers
        /\ Val(geometry.mesh) = meshfile.mesh
        /\ Val(geometry.ffun) = meshfile.ffun
        /\ Val(geometry.f0) = meshfile.f0
        /\ Val(geometry.s0) = meshfile.s0
        /\ Val(geometry.n0) = meshfile.n0)
  /\ (material # NoMaterial =>
        /\ {material.f0, material.s0, material.n0} \cap GeometryRefs = {}
        /\ Val(material.f0) = Val(geometry.f0)
        /\ Val(material.s0) = Val(geometry.s0)
        /\ Val(material.n0) = Val(geometry.n0))
C9_Witness ==
  /\ script = "demo" /\ pc = "done" /\ Count("from_file") = 1
  /\ material.f0 # geometry.f0 /\ Val(geometry.f0) = meshfile.f0

\* C10: every facet marker given to a boundary condition or to a surface
\* measure is the id (a python int) of an entry of the geometry's marker
\* table, never the whole (id, dimension) entry, in both scripts.
C10_MarkerIsId ==
  /\ \A r \in 1..Len(heap) :
       heap[r].type \in {"NeumannBC", "RobinBC", "DirichletBC"} =>
         heap[r].marker.tag = "int" /\ heap[r].marker \in TableIds
  /\ (volume_model # NoObservation =>
        /\ volume_model.dmu.subdomain_id.tag = "int"
        /\ volume_model.dmu.subdomain_id \in TableIds)

=============================================================================
